---- MODULE Spec2Model ----
(***************************************************************************)
(* Model of the scalewiz Test Execution Controller                         *)
(* (src/scalewiz/models/test_handler.py, class TestHandler) together with  *)
(* the parts of Project (src/scalewiz/models/project.py) it calls.         *)
(*                                                                         *)
(* Two threads of control act on one TestHandler: the Tk caller thread     *)
(* (start_test, request_stop, new_test, widget edits) and the single       *)
(* worker of ThreadPoolExecutor(max_workers=1), which executes             *)
(* take_readings.  Every caller operation is one action; take_readings is  *)
(* cut at its sleeps and blocking pump calls, so that caller operations    *)
(* interleave with it wherever the code can be suspended.                  *)
(*                                                                         *)
(* Units.  Time is a discrete clock of ticks of 0.2 s.  Minutes are held   *)
(* in hundredths of a minute (the code rounds elapsed minutes to two       *)
(* decimals), so one hundredth of a minute is TicksPerCentiMin ticks.      *)
(* None (Python) is the sentinel None for number-valued attributes.        *)
(***************************************************************************)
EXTENDS Integers, Sequences, FiniteSets, TLC

\* ---------------------------------------------------------------- bounds
\* pressures a pump may report
PsiValues == {100, 600}
\* tests a project may hold before the model stops accepting start requests
MaxTests == 1
\* start requests the pool may hold queued behind the running worker
MaxPending == 1
\* pressure limits (psi) a project may carry
PsiLimits == {500}
\* time limits (hundredths of a minute) a project may carry
MinuteLimits == {1, 2}
\* sample intervals (ticks) a project may carry
Intervals == {1, 3, 7}
\* uptake durations (ticks) a project may carry
Uptakes == {0, 1}
\* largest max_readings and elapsed_min can_run is called with on its own
MaxCanRunReadings == 2
MaxCanRunElapsed == 2
\* maxima can_run is called with on its own: below, at and above the limit
\* longest time (ticks) the two pressure reads of one tick may take
MaxDelay == 4
CanRunPsi == {100, 500, 600}
\* largest time limit (hundredths of a minute) and sample interval (ticks)
\* new_test is called with on its own
MaxNewTestLimit == 6
MaxNewTestInterval == 20
\* test names the operator may type
Names == {"", "a"}
\* serial ports the operator may select
Ports == {"", "COM1", "COM2"}
\* water clarity entries the operator may choose
Clarities == {"", "clear"}
\* labels of the tests a project holds when dump_json is called on its own:
\* a name followed by 0 or 1 " - copy" suffixes
DumpLabels == {<<n, k>> : n \in {"a", "A", "b"}, k \in {0, 1}}
\* most tests a project holds when dump_json is called on its own
MaxDumpTests == 3

\* ------------------------------------------------------ program constants
\* the uptake loop runs range(100)
UptakeSteps == 100
\* 0.6 s (one hundredth of a minute) in ticks of 0.2 s
TicksPerCentiMin == 3
\* Python None, for attributes that otherwise hold a non-negative number
None == -1

VARIABLES
    \* TestHandler attributes
    project,        \* self.project: limits, path and the list of tests
    test,           \* self.test
    readings,       \* self.readings (Queue)
    max_readings,   \* self.max_readings
    max_psi_1,      \* self.max_psi_1
    max_psi_2,      \* self.max_psi_2
    elapsed_min,    \* self.elapsed_min
    stop_requested, \* self.stop_requested (Event)
    progress,       \* self.progress
    is_running,     \* self.is_running
    is_done,        \* self.is_done
    dev1, dev2,     \* self.dev1, self.dev2
    pump1, pump2,   \* self.pump1, self.pump2
    \* environment
    file,           \* the project's JSON file on disk
    warning,        \* issues shown by the last start request that was no no-op
    start_raised,   \* exception that ended the last such start request, or ""
    \* the pool and its worker
    pending,        \* take_readings submissions queued in self.pool
    pc,             \* position of the worker inside take_readings
    frame,          \* the locals of the executing take_readings:
                    \*   i (uptake loop), step, interval, minutes_elapsed,
                    \*   psi1, psi2, clock = monotonic() - test_start_time,
                    \*   can_run = what the last call of can_run returned
    \* history (not program state)
    fault,          \* exception that ended the worker's last take_readings, or ""
    hist            \* of the executing take_readings:
                    \*   aborted: it called stop_test in the uptake loop
                    \*   pushed: Samples it has put
                    \*   late: Samples it has put since a stop request was
                    \*         accepted while it ran (None: no such request)
                    \*   over1, over2: a Sample it has put had a pump1 (pump2)
                    \*         pressure above the project's limit

vars == <<project, test, readings, max_readings, max_psi_1, max_psi_2,
          elapsed_min, stop_requested, progress, is_running, is_done,
          dev1, dev2, pump1, pump2, file, warning, start_raised, pending,
          pc, frame, fault, hist>>

\* ---------------------------------------------------------------- helpers
\* Python round(n / d) for n >= 0, d > 0: nearest integer, ties to even
Round(n, d) ==
    LET q == n \div d
        r == n % d
    IN  IF 2 * r < d THEN q
        ELSE IF 2 * r > d THEN q + 1
        ELSE IF q % 2 = 0 THEN q ELSE q + 1

\* the max_readings property of the older TestHandler: one more reading
MaxReadingsPlusOne(limit_minutes, interval_seconds) ==
    Round(limit_minutes * TicksPerCentiMin, interval_seconds) + 1

\* round(limit_minutes * 60 / interval_seconds)
MaxReadings(limit_minutes, interval_seconds) ==
    Round(limit_minutes * TicksPerCentiMin, interval_seconds)

\* round((monotonic() - test_start_time) / 60, 2), in hundredths of a minute
MinutesElapsed(ticks) == Round(ticks, TicksPerCentiMin)

\* round((psi1 + psi2) / 2)
Average(p1, p2) == Round(p1 + p2, 2)

Reading(m, p1, p2) ==
    [elapsedMin |-> m, pump1 |-> p1, pump2 |-> p2, average |-> Average(p1, p2)]

\* Test() as constructed by new_test
NewTestObject ==
    [name |-> "", label |-> <<"", 0>>, is_blank |-> FALSE, clarity |-> "",
     readings |-> <<>>]

\* a pump attribute that is still None
NoPump == [exists |-> FALSE, port |-> "", is_open |-> FALSE,
           running |-> FALSE, flowrate |-> 0]

\* NextGenPump(port, logger): the constructor opens the serial port
NextGenPump(port, opened) ==
    [exists |-> TRUE, port |-> port, is_open |-> opened,
     running |-> FALSE, flowrate |-> 0]

\* -------------------------------------------------------------- can_run
\* can_run raises TypeError: the pressure clause holds, so Python goes on to
\* evaluate None <= limit_minutes
CanRunRaises ==
    /\ (max_psi_1 <= project.limit_psi \/ max_psi_2 <= project.limit_psi)
    /\ elapsed_min = None

\* can_run with the pressure clause read as an AND
CanRunBothPumps ==
    /\ (max_psi_1 <= project.limit_psi /\ max_psi_2 <= project.limit_psi)
    /\ elapsed_min # None
    /\ elapsed_min <= project.limit_minutes
    /\ Len(readings) < max_readings
    /\ ~stop_requested

\* can_run without its comparison of the queue's size with max_readings
CanRunUncounted ==
    /\ (max_psi_1 <= project.limit_psi \/ max_psi_2 <= project.limit_psi)
    /\ elapsed_min # None
    /\ elapsed_min <= project.limit_minutes
    /\ ~stop_requested

\* the value can_run returns when it does not raise
CanRun ==
    /\ (max_psi_1 <= project.limit_psi \/ max_psi_2 <= project.limit_psi)
    /\ elapsed_min # None
    /\ elapsed_min <= project.limit_minutes
    /\ Len(readings) < max_readings
    /\ ~stop_requested

\* what a call of can_run does: the value it returns, or the exception
CanRunResult ==
    IF CanRunRaises THEN "TypeError" ELSE IF CanRun THEN "True" ELSE "False"

\* ------------------------------------------------------------ pump handle
\* pump.run(): a write to a closed serial port raises
RunRaises(pump) == ~pump.exists \/ ~pump.is_open
Run(pump) == [pump EXCEPT !.running = TRUE]

\* stop_test's loop body without pump.close()
StopOnly(pump) ==
    IF pump.is_open THEN [pump EXCEPT !.running = FALSE] ELSE pump

\* the body of stop_test's loop for one pump
StopAndClose(pump) ==
    IF pump.is_open
    THEN [pump EXCEPT !.running = FALSE, !.is_open = FALSE]
    ELSE pump

\* a close() that leaves the port open
KeepOpen(pump) == pump

\* pump.close()
Close(pump) == [pump EXCEPT !.is_open = FALSE]

\* ----------------------------------------------------------------- Project
\* Project(): the limits CONFIG["defaults"] supplies, no path, no tests
DefaultProject ==
    [limit_psi |-> 500, limit_minutes |-> 1, interval_seconds |-> 1,
     uptake_seconds |-> 1, flowrate |-> 1, path |-> "", tests |-> <<>>]

NoFile == [exists |-> FALSE, limit_psi |-> 0, limit_minutes |-> 0,
           interval_seconds |-> 0, uptake_seconds |-> 0, flowrate |-> 0,
           tests |-> <<>>]

\* the JSON dump_json writes for a project
Dumped(p) ==
    [exists |-> TRUE, limit_psi |-> p.limit_psi,
     limit_minutes |-> p.limit_minutes,
     interval_seconds |-> p.interval_seconds,
     uptake_seconds |-> p.uptake_seconds, flowrate |-> p.flowrate,
     tests |-> p.tests]

\* the Project load_json builds from the file at path
Loaded(f, path) ==
    [limit_psi |-> f.limit_psi, limit_minutes |-> f.limit_minutes,
     interval_seconds |-> f.interval_seconds,
     uptake_seconds |-> f.uptake_seconds, flowrate |-> f.flowrate,
     path |-> path, tests |-> f.tests]
\* rank of a name in string order
NameRank(n) == IF n = "" THEN 0 ELSE IF n = "a" THEN 1 ELSE 2

\* natural-sort order of two labels; <<base, k>> is base followed by k
\* " - copy" suffixes
LabelLess(l1, l2) ==
    \/ NameRank(l1[1]) < NameRank(l2[1])
    \/ (l1[1] = l2[1] /\ l1[2] < l2[2])

\* dump_json's while loop: append " - copy" until the label is unused
RECURSIVE FreshLabel(_, _)
FreshLabel(l, used) ==
    IF l \notin used THEN l ELSE FreshLabel(<<l[1], l[2] + 1>>, used)

\* label.lower()
Lower(l) == <<IF l[1] = "A" THEN "a" ELSE l[1], l[2]>>

\* dump_json's first loop: every test gets a label no earlier test has
RECURSIVE Relabel(_, _)
Relabel(tests, used) ==
    IF tests = <<>> THEN <<>>
    ELSE LET l == FreshLabel(Lower(Head(tests).label), used)
         IN  <<[Head(tests) EXCEPT !.label = l]>>
             \o Relabel(Tail(tests), used \cup {l})

\* sort_nicely over the labels of one group, the tests popped in that order
RECURSIVE Insert(_, _)
Insert(t, sorted) ==
    IF sorted = <<>> THEN <<t>>
    ELSE IF LabelLess(t.label, Head(sorted).label) THEN <<t>> \o sorted
    ELSE <<Head(sorted)>> \o Insert(t, Tail(sorted))

RECURSIVE SortNicely(_)
SortNicely(tests) ==
    IF tests = <<>> THEN <<>> ELSE Insert(Head(tests), SortNicely(Tail(tests)))

IsBlank(t) == t.is_blank
IsTrial(t) == ~t.is_blank

\* dump_json without its loop that makes the labels distinct
DumpOrderAsLabelled(tests) ==
    SortNicely(SelectSeq(tests, IsBlank)) \o SortNicely(SelectSeq(tests, IsTrial))

\* the test list dump_json leaves in self.tests: relabelled, blanks first
DumpOrder(tests) ==
    LET r == Relabel(tests, {})
    IN  SortNicely(SelectSeq(r, IsBlank)) \o SortNicely(SelectSeq(r, IsTrial))

\* ------------------------------------------------------------- new_test
\* new_test with self.project = p: everything it assigns
NewTest(p) ==
    /\ test' = NewTestObject
    /\ readings' = <<>>
    /\ max_psi_1' = 0
    /\ max_psi_2' = 0
    /\ is_running' = FALSE
    /\ is_done' = FALSE
    /\ progress' = 0
    /\ max_readings' = MaxReadings(p.limit_minutes, p.interval_seconds)

\* the worker's thread outside take_readings: no locals, no history
NoFrame == [i |-> 0, step |-> 0, interval |-> 0, clock |-> 0,
            minutes_elapsed |-> 0, psi1 |-> 0, psi2 |-> 0, can_run |-> ""]
NoHist == [aborted |-> FALSE, pushed |-> 0, late |-> None,
           over1 |-> FALSE, over2 |-> FALSE]

\* ---------------------------------------------------------------- Init
\* a project file as the Project Store holds it before the first run
ProjectFiles ==
    {[exists |-> TRUE, limit_psi |-> lp, limit_minutes |-> lm,
      interval_seconds |-> iv, uptake_seconds |-> up, flowrate |-> 1,
      tests |-> <<>>] :
        lp \in PsiLimits, lm \in MinuteLimits, iv \in Intervals, up \in Uptakes}

\* TestHandler.__init__: a default Project, no file.  elapsed_min is None
\* after __init__ and no code of the controller assigns it before the
\* sampling loop does; 0 stands for a controller whose embedding application
\* has assigned the attribute.
Init ==
    /\ file = NoFile
    /\ project = DefaultProject
    /\ test = NewTestObject
    /\ readings = <<>>
    /\ max_readings = MaxReadings(project.limit_minutes, project.interval_seconds)
    /\ max_psi_1 = 0
    /\ max_psi_2 = 0
    /\ elapsed_min \in {None, 0}
    /\ stop_requested = FALSE
    /\ progress = 0
    /\ is_running = FALSE
    /\ is_done = FALSE
    /\ dev1 = ""
    /\ dev2 = ""
    /\ pump1 = NoPump
    /\ pump2 = NoPump
    /\ warning = <<>>
    /\ start_raised = ""
    /\ pending = 0
    /\ pc = "idle"
    /\ frame = NoFrame
    /\ fault = ""
    /\ hist = NoHist

handlerVars == <<project, test, readings, max_readings, max_psi_1, max_psi_2,
                 elapsed_min, stop_requested, progress, is_running, is_done>>
deviceVars == <<dev1, dev2, pump1, pump2>>
callerVars == <<warning, start_raised>>
workerVars == <<pending, pc, frame>>
historyVars == <<fault, hist>>
\* ===================================================== the caller's thread
\* `not Path(self.project.path.get()).is_file`: is_file is not called, and the
\* bound method is truthy whatever the path
IsFileAttr(path) == TRUE

ConnectIssue(pump) ==
    IF pump.port = "COM1" THEN "Couldn't connect to COM1"
    ELSE IF pump.port = "COM2" THEN "Couldn't connect to COM2"
    ELSE "Couldn't connect to "

\* the checks of start_test with a clarity check that ignores is_blank
CheckIssuesAnyTest ==
    (IF test.name = ""
     THEN <<"Name the experiment before starting">> ELSE <<>>)
    \o (IF \E k \in 1..Len(project.tests) : project.tests[k].name = test.name
        THEN <<"A test with this name already exists in the project">>
        ELSE <<>>)
    \o (IF test.clarity = ""
        THEN <<"Water clarity cannot be blank">> ELSE <<>>)

\* the issues start_test collects itself, before setup_pumps
CheckIssues ==
    (IF ~IsFileAttr(project.path)
     THEN <<"Select an existing project file first">> ELSE <<>>)
    \o (IF test.name = ""
        THEN <<"Name the experiment before starting">> ELSE <<>>)
    \o (IF \E k \in 1..Len(project.tests) : project.tests[k].name = test.name
        THEN <<"A test with this name already exists in the project">>
        ELSE <<>>)
    \o (IF test.clarity = "" /\ ~test.is_blank
        THEN <<"Water clarity cannot be blank">> ELSE <<>>)

\* the issues setup_pumps appends for the selected ports
PortIssues ==
    (IF dev1 = "" THEN <<"Select a port for pump 1">> ELSE <<>>)
    \o (IF dev2 = "" THEN <<"Select a port for pump 2">> ELSE <<>>)
    \o (IF dev1 = dev2 THEN <<"Select two unique ports">> ELSE <<>>)

\* the pumps after setup_pumps' if/else: replaced unless the ports are equal
SetupPump(old, port, opened) ==
    IF dev1 = dev2 THEN old ELSE NextGenPump(port, opened /\ port # "")

\* the body of setup_pumps' for loop for one pump that is not None
SetFlowrate(pump) ==
    IF pump.is_open THEN [pump EXCEPT !.flowrate = project.flowrate] ELSE pump
PumpIssues(pump) ==
    IF pump.is_open THEN <<>> ELSE <<ConnectIssue(pump)>>

\* start_test.  o1, o2: whether the serial ports open; log_ok: whether
\* update_log_handler can create its log file
StartTest(o1, o2, log_ok) ==
    IF is_running
    THEN UNCHANGED vars
    ELSE
      /\ Len(project.tests) < MaxTests
      /\ pending < MaxPending
      /\ LET p1 == SetupPump(pump1, dev1, o1)
             p2 == SetupPump(pump2, dev2, o2)
             issues == CheckIssues \o PortIssues
                       \o PumpIssues(p1) \o PumpIssues(p2)
         IN  IF ~p1.exists \/ ~p2.exists
             THEN \* pump.serial.name on None
                  /\ start_raised' = "AttributeError"
                  /\ warning' = <<>>
                  /\ UNCHANGED <<handlerVars, deviceVars, file, workerVars,
                                 historyVars>>
             ELSE IF Len(issues) > 0
             THEN /\ warning' = issues
                  /\ start_raised' = ""
                  /\ pump1' = Close(SetFlowrate(p1))
                  /\ pump2' = Close(SetFlowrate(p2))
                  /\ UNCHANGED <<handlerVars, dev1, dev2, file, workerVars,
                                 historyVars>>
             ELSE /\ pump1' = SetFlowrate(p1)
                  /\ pump2' = SetFlowrate(p2)
                  /\ stop_requested' = FALSE
                  /\ is_done' = FALSE
                  /\ is_running' = TRUE
                  /\ pending' = IF log_ok THEN pending + 1 ELSE pending
                  /\ start_raised' =
                         IF log_ok THEN "" ELSE "FileNotFoundError"
                  /\ warning' = <<>>
                  /\ UNCHANGED <<project, test, readings, max_readings,
                                 max_psi_1, max_psi_2, elapsed_min, progress,
                                 dev1, dev2, file, pc, frame, historyVars>>

\* request_stop that flips the flag instead of setting it
RequestStopToggle ==
    IF is_running
    THEN /\ stop_requested' = ~stop_requested
         /\ UNCHANGED <<project, test, readings, max_readings, max_psi_1,
                        max_psi_2, elapsed_min, progress, is_running, is_done,
                        deviceVars, file, callerVars, workerVars, historyVars>>
    ELSE UNCHANGED vars

\* request_stop without its is_running guard
RequestStopAlways ==
    /\ stop_requested' = TRUE
    /\ UNCHANGED <<project, test, readings, max_readings, max_psi_1,
                   max_psi_2, elapsed_min, progress, is_running, is_done,
                   deviceVars, file, callerVars, workerVars, historyVars>>

\* request_stop
RequestStop ==
    IF is_running
    THEN /\ stop_requested' = TRUE
         /\ hist' = IF pc # "idle" /\ hist.late = None
                    THEN [hist EXCEPT !.late = 0] ELSE hist
         /\ UNCHANGED <<project, test, readings, max_readings, max_psi_1,
                        max_psi_2, elapsed_min, progress, is_running, is_done,
                        deviceVars, file, callerVars, workerVars, fault>>
    ELSE UNCHANGED vars

\* new_test, from the view's New button
NewTestAction ==
    /\ NewTest(project)
    /\ UNCHANGED <<project, elapsed_min, stop_requested, deviceVars, file,
                   callerVars, workerVars, historyVars>>

\* the operator types into the entries bound to self.test; the view disables
\* its inputs while is_running
EditTest(n, c, b) ==
    /\ ~is_running
    /\ test' = [test EXCEPT !.name = n, !.label = <<n, 0>>, !.clarity = c,
                            !.is_blank = b]
    /\ UNCHANGED <<project, readings, max_readings, max_psi_1, max_psi_2,
                   elapsed_min, stop_requested, progress, is_running, is_done,
                   deviceVars, file, callerVars, workerVars, historyVars>>

\* the operator picks the two ports in the device comboboxes
SelectDevices(d1, d2) ==
    /\ ~is_running
    /\ dev1' = d1
    /\ dev2' = d2
    /\ UNCHANGED <<handlerVars, pump1, pump2, file, callerVars, workerVars,
                   historyVars>>
\* ========================================================== the worker
\* take_readings is left, by return or by an exception e (which the future
\* keeps): the pool's thread is free again and nothing else is undone
Exit(e) ==
    /\ fault' = e
    /\ pc' = "idle"
    /\ frame' = NoFrame
    /\ hist' = NoHist

\* stop_test
StopTest ==
    /\ pump1' = StopAndClose(pump1)
    /\ pump2' = StopAndClose(pump2)
    /\ is_done' = TRUE

\* lines 161-165 of take_readings: interval and test_start_time are taken,
\* then the worker sleeps one interval.  returned: what the uptake loop's
\* last call of can_run returned
StartSampling(returned) ==
    /\ frame' = [frame EXCEPT !.interval = project.interval_seconds,
                              !.clock = project.interval_seconds,
                              !.can_run = returned]
    /\ pc' = "loop"

\* the pool's thread takes a queued take_readings: lines 148-153
TakeReadings ==
    /\ pc = "idle"
    /\ pending > 0
    /\ pending' = pending - 1
    /\ IF RunRaises(pump1)
       THEN /\ Exit("DeviceError")
            /\ UNCHANGED <<pump1, pump2>>
       ELSE IF RunRaises(pump2)
       THEN /\ Exit("DeviceError")
            /\ pump1' = Run(pump1)
            /\ UNCHANGED pump2
       ELSE /\ pump1' = Run(pump1)
            /\ pump2' = Run(pump2)
            /\ pc' = "uptake"
            /\ frame' = [NoFrame EXCEPT !.step = project.uptake_seconds]
            /\ hist' = [NoHist EXCEPT
                           !.late = IF stop_requested THEN 0 ELSE None]
            /\ fault' = ""
    /\ UNCHANGED <<handlerVars, dev1, dev2, file, callerVars>>

\* one iteration of the uptake loop (lines 154-160), up to the end of its
\* sleep; after the break of the else branch the worker goes on with lines
\* 161-165
UptakeStep ==
    /\ pc = "uptake"
    /\ frame.i < UptakeSteps
    /\ IF CanRunRaises
       THEN /\ Exit("TypeError")
            /\ UNCHANGED <<progress, pump1, pump2, is_done>>
       ELSE IF CanRun
       THEN /\ progress' = frame.i
            /\ IF frame.step = 0
               THEN \* (monotonic() - rinse_start) % step with step = 0.0
                    Exit("ZeroDivisionError")
               ELSE /\ frame' = [frame EXCEPT !.i = frame.i + 1,
                                              !.can_run = "True"]
                    /\ UNCHANGED <<pc, fault, hist>>
            /\ UNCHANGED <<pump1, pump2, is_done>>
       ELSE /\ StopTest
            /\ hist' = [hist EXCEPT !.aborted = TRUE]
            /\ StartSampling("False")
            /\ UNCHANGED <<progress, fault>>
    /\ UNCHANGED <<project, test, readings, max_readings, max_psi_1,
                   max_psi_2, elapsed_min, stop_requested, is_running, dev1,
                   dev2, file, callerVars, pending>>

\* the uptake loop has run all its steps: lines 161-165
UptakeDone ==
    /\ pc = "uptake"
    /\ frame.i = UptakeSteps
    /\ StartSampling(frame.can_run)
    /\ UNCHANGED <<handlerVars, deviceVars, file, callerVars, pending,
                   historyVars>>

\* `while self.can_run():` and, when it holds, line 168
LoopCheck ==
    /\ pc = "loop"
    /\ IF CanRunRaises
       THEN Exit("TypeError")
       ELSE IF CanRun
       THEN /\ frame' = [frame EXCEPT
                            !.minutes_elapsed = MinutesElapsed(frame.clock),
                            !.can_run = "True"]
            /\ pc' = "read"
            /\ UNCHANGED historyVars
       ELSE /\ frame' = [frame EXCEPT !.can_run = "False"]
            /\ pc' = "stop"
            /\ UNCHANGED historyVars
    /\ UNCHANGED <<handlerVars, deviceVars, file, callerVars, pending>>

\* lines 170-171: the two pressure reads, which take d ticks and return p1, p2
ReadPressure(p1, p2, d) ==
    /\ pc = "read"
    /\ IF RunRaises(pump1) \/ RunRaises(pump2)
       THEN Exit("DeviceError")
       ELSE /\ frame' = [frame EXCEPT !.psi1 = p1, !.psi2 = p2,
                                      !.clock = frame.clock + d]
            /\ pc' = "record"
            /\ UNCHANGED historyVars
    /\ UNCHANGED <<handlerVars, deviceVars, file, callerVars, pending>>

\* a pressure read fails with a device error although the port is open
ReadFault ==
    /\ pc = "read"
    /\ ~RunRaises(pump1)
    /\ ~RunRaises(pump2)
    /\ Exit("DeviceError")
    /\ UNCHANGED <<handlerVars, deviceVars, file, callerVars, pending>>

\* sleep(interval): the clock when a sleep of one whole interval ends
SleepInterval(now, iv) == now + iv

\* sleep(interval - ((monotonic() - test_start_time) % interval)): the clock
\* when the sleep ends
AfterSleep(now, iv) == now + (iv - (now % iv))

\* lines 172-196: the Reading is put, elapsed_min, progress and the maxima
\* are updated, and the worker sleeps to the next tick
Record ==
    /\ pc = "record"
    /\ readings' = Append(readings,
                          Reading(frame.minutes_elapsed, frame.psi1, frame.psi2))
    /\ elapsed_min' = frame.minutes_elapsed
    /\ IF max_readings = 0
       THEN \* qsize() / self.max_readings
            /\ Exit("ZeroDivisionError")
            /\ UNCHANGED <<progress, max_psi_1, max_psi_2>>
       ELSE /\ progress' = Round(Len(readings') * 100, max_readings)
            /\ max_psi_1' = IF frame.psi1 > max_psi_1
                            THEN frame.psi1 ELSE max_psi_1
            /\ max_psi_2' = IF frame.psi2 > max_psi_2
                            THEN frame.psi2 ELSE max_psi_2
            /\ frame' = [frame EXCEPT
                            !.clock = AfterSleep(frame.clock, frame.interval)]
            /\ hist' = [hist EXCEPT
                           !.pushed = hist.pushed + 1,
                           !.late = IF hist.late = None
                                    THEN None ELSE hist.late + 1,
                           !.over1 = hist.over1
                                     \/ frame.psi1 > project.limit_psi,
                           !.over2 = hist.over2
                                     \/ frame.psi2 > project.limit_psi]
            /\ pc' = "loop"
            /\ UNCHANGED fault
    /\ UNCHANGED <<project, test, max_readings, stop_requested, is_running,
                   is_done, deviceVars, file, callerVars, pending>>

\* line 198: stop_test after the readings loop
Stop ==
    /\ pc = "stop"
    /\ StopTest
    /\ pc' = "save"
    /\ UNCHANGED <<project, test, readings, max_readings, max_psi_1,
                   max_psi_2, elapsed_min, stop_requested, progress,
                   is_running, dev1, dev2, file, callerVars, pending, frame,
                   historyVars>>

\* the Test save_test appends to the project: self.test with the queue's
\* readings appended in queue order
Drained(t, queue) == [t EXCEPT !.readings = t.readings \o queue]

\* line 199: save_test.  written: whether dump_json's write succeeds
SaveTest(written) ==
    /\ pc = "save"
    /\ LET tests == DumpOrder(Append(project.tests, Drained(test, readings)))
           dumped == [project EXCEPT !.tests = tests]
           ondisk == IF written /\ project.path # ""
                     THEN Dumped(dumped) ELSE file
       IN  /\ file' = ondisk
           /\ IF project.path = "" \/ ~ondisk.exists
              THEN \* load_json: obj is unbound when path.is_file() is false
                   /\ Exit("UnboundLocalError")
                   /\ project' = DefaultProject
                   /\ test' = Drained(test, readings)
                   /\ UNCHANGED <<readings, max_readings, max_psi_1,
                                  max_psi_2, progress, is_running, is_done>>
              ELSE /\ Exit("")
                   /\ project' = Loaded(ondisk, project.path)
                   /\ NewTest(project')
    /\ UNCHANGED <<elapsed_min, stop_requested, deviceVars, callerVars,
                   pending>>

\* load_project with a project file the operator picks in the dialog
LoadProject(f) ==
    /\ file' = f
    /\ project' = Loaded(f, "p")
    /\ NewTest(project')
    /\ UNCHANGED <<elapsed_min, stop_requested, deviceVars, callerVars,
                   workerVars, historyVars>>

Worker ==
    \/ TakeReadings
    \/ UptakeStep
    \/ UptakeDone
    \/ LoopCheck
    \/ \E p \in PsiValues : ReadPressure(p, p, 0)
    \/ Record
    \/ Stop
    \/ \E written \in BOOLEAN : SaveTest(written)

\* the project files the operator loads while tests run: max_readings is 3
\* for the interval of 1 tick and 0 for the interval of 7 ticks
RunFiles ==
    {f \in ProjectFiles : f.uptake_seconds # 0 /\ f.limit_minutes = 1
                          /\ f.interval_seconds \in {1, 7}}

\* the caller's thread, with serial ports that open and a log directory
\* that exists
Caller ==
    \/ StartTest(TRUE, TRUE, TRUE)
    \/ RequestStop
    \/ NewTestAction
    \/ \E n \in Names : EditTest(n, "clear", FALSE)
    \/ SelectDevices("COM1", "COM2")
    \/ \E f \in RunFiles : LoadProject(f)

Next == Worker \/ Caller \/ ReadFault

\* every interleaving of the caller's operations with the worker
Spec == Init /\ [][Next]_vars

\* every pump call returns
NextLive == Worker \/ Caller

\* the pool's thread is scheduled fairly: a take_readings that can take its
\* next step eventually takes it
SpecLive == Init /\ [][NextLive]_vars /\ WF_vars(Worker)

\* ------------------------------------------------------------ arming
\* the worker of a run whose pumps both report the same pressure
WorkerArming ==
    \/ TakeReadings
    \/ UptakeStep
    \/ UptakeDone
    \/ LoopCheck
    \/ ReadPressure(100, 100, 0)
    \/ Record
    \/ Stop
    \/ SaveTest(TRUE)

\* the operator arms a test between runs, while no take_readings executes
\* or waits in the pool: every entry of the view, every port selection,
\* serial ports that may fail to open and a log file that may fail
Arm ==
    /\ pc = "idle"
    /\ pending = 0
    /\ \/ \E o1, o2, log_ok \in BOOLEAN : StartTest(o1, o2, log_ok)
       \/ NewTestAction
       \/ \E n \in Names, c \in Clarities, b \in BOOLEAN : EditTest(n, c, b)
       \/ \E d1, d2 \in Ports : SelectDevices(d1, d2)

CallerArming == Arm \/ RequestStop

NextArming == WorkerArming \/ CallerArming

SpecArming == Init /\ [][NextArming]_vars

\* ------------------------------------------------------ the rinse window
\* RinseWindow.request_rinse.  o1, o2: whether the serial ports open.  Past
\* its guard it calls setup_pumps without an issues list, then run() on both
\* pumps, then self.rinse, which fails on self.pump1 (an attribute of the
\* handler, not of the window); its exceptions end the callback and are
\* not kept
RequestRinse(o1, o2) ==
    IF is_done \/ ~is_running
    THEN LET p1 == SetupPump(pump1, dev1, o1)
             p2 == SetupPump(pump2, dev2, o2)
             s1 == SetFlowrate(p1)
             s2 == SetFlowrate(p2)
         IN  /\ IF ~p1.exists \/ ~p2.exists
                THEN \* pump.serial.name on None
                     UNCHANGED <<pump1, pump2>>
                ELSE IF RunRaises(s1)
                THEN pump1' = s1 /\ pump2' = s2
                ELSE IF RunRaises(s2)
                THEN pump1' = Run(s1) /\ pump2' = s2
                ELSE pump1' = Run(s1) /\ pump2' = Run(s2)
             /\ UNCHANGED <<handlerVars, dev1, dev2, file, callerVars,
                            workerVars, historyVars>>
    ELSE UNCHANGED vars

\* the operator of one test and of the rinse window: no new_test and no
\* load_project
CallerRinse ==
    \/ StartTest(TRUE, TRUE, TRUE)
    \/ RequestStop
    \/ EditTest("a", "clear", FALSE)
    \/ SelectDevices("COM1", "COM2")
    \/ \E o1, o2 \in BOOLEAN : RequestRinse(o1, o2)

NextRinse == Worker \/ CallerRinse

SpecRinse == Init /\ [][NextRinse]_vars

\* ------------------------------------------- sampling with slow reads
\* the worker with pressure reads that take up to MaxDelay ticks
WorkerSampling ==
    \/ TakeReadings
    \/ UptakeStep
    \/ UptakeDone
    \/ LoopCheck
    \/ \E d \in 0..MaxDelay : ReadPressure(100, 100, d)
    \/ Record
    \/ Stop
    \/ SaveTest(TRUE)

\* the caller prepares and starts runs of any project file while nothing
\* is running or queued
CallerSampling ==
    /\ pc = "idle"
    /\ pending = 0
    /\ \/ StartTest(TRUE, TRUE, TRUE)
       \/ EditTest("a", "clear", FALSE)
       \/ SelectDevices("COM1", "COM2")
       \/ \E f \in ProjectFiles : LoadProject(f)

NextSampling == WorkerSampling \/ CallerSampling

SpecSampling == Init /\ [][NextSampling]_vars

\* ------------------------------------------------- can_run on its own
\* can_run called in a state whose attributes are drawn freely
InitCanRun ==
    /\ file = NoFile
    /\ \E lp \in PsiLimits, lm \in MinuteLimits :
           project = [DefaultProject EXCEPT !.limit_psi = lp,
                                            !.limit_minutes = lm]
    /\ test = NewTestObject
    /\ readings \in {<<>>, <<Reading(0, 100, 100)>>,
                     <<Reading(0, 100, 100), Reading(1, 100, 100)>>}
    /\ max_readings \in 0..MaxCanRunReadings
    /\ max_psi_1 \in CanRunPsi
    /\ max_psi_2 \in CanRunPsi
    /\ elapsed_min \in 0..MaxCanRunElapsed
    /\ stop_requested \in BOOLEAN
    /\ progress = 0
    /\ is_running = TRUE
    /\ is_done = FALSE
    /\ dev1 = ""
    /\ dev2 = ""
    /\ pump1 = NoPump
    /\ pump2 = NoPump
    /\ warning = <<>>
    /\ start_raised = ""
    /\ pending = 0
    /\ pc = "call"
    /\ frame = NoFrame
    /\ fault = ""
    /\ hist = NoHist

\* value = self.can_run()
CallCanRun ==
    /\ pc = "call"
    /\ frame' = [frame EXCEPT !.can_run = CanRunResult]
    /\ pc' = "returned"
    /\ UNCHANGED <<handlerVars, deviceVars, file, callerVars, pending,
                   historyVars>>

NextCanRun == CallCanRun

SpecCanRun == InitCanRun /\ [][NextCanRun]_vars

\* ------------------------------------------------- new_test on its own
\* a constructed TestHandler whose project's time limit and sample interval
\* have been set to values drawn freely; max_readings is still the one
\* __init__ computed
InitNewTest ==
    /\ file = NoFile
    /\ \E lm \in 1..MaxNewTestLimit, iv \in 1..MaxNewTestInterval :
           project = [DefaultProject EXCEPT !.limit_minutes = lm,
                                            !.interval_seconds = iv]
    /\ test = NewTestObject
    /\ readings = <<>>
    /\ max_readings = MaxReadings(DefaultProject.limit_minutes,
                                  DefaultProject.interval_seconds)
    /\ max_psi_1 = 0
    /\ max_psi_2 = 0
    /\ elapsed_min = None
    /\ stop_requested = FALSE
    /\ progress = 0
    /\ is_running = FALSE
    /\ is_done = FALSE
    /\ dev1 = ""
    /\ dev2 = ""
    /\ pump1 = NoPump
    /\ pump2 = NoPump
    /\ warning = <<>>
    /\ start_raised = ""
    /\ pending = 0
    /\ pc = "call"
    /\ frame = NoFrame
    /\ fault = ""
    /\ hist = NoHist

\* self.new_test()
CallNewTest ==
    /\ pc = "call"
    /\ NewTest(project)
    /\ pc' = "returned"
    /\ UNCHANGED <<project, elapsed_min, stop_requested, deviceVars, file,
                   callerVars, pending, frame, historyVars>>

NextNewTest == CallNewTest

SpecNewTest == InitNewTest /\ [][NextNewTest]_vars

\* ------------------------------------- a run of one minute at 30 seconds
\* a project file with a time limit of 1 minute (100 hundredths), a sample
\* interval of 30 s (150 ticks) and a pressure limit of 500 psi
OneMinuteFile ==
    [exists |-> TRUE, limit_psi |-> 500, limit_minutes |-> 100,
     interval_seconds |-> 150, uptake_seconds |-> 1, flowrate |-> 1,
     tests |-> <<>>]

\* the constructed TestHandler after load_project of that file, with the
\* test named and its clarity given and two ports selected
InitOneMinute ==
    /\ file = OneMinuteFile
    /\ project = Loaded(OneMinuteFile, "p")
    /\ test = [NewTestObject EXCEPT !.name = "a", !.label = <<"a", 0>>,
                                    !.clarity = "clear"]
    /\ readings = <<>>
    /\ max_readings = MaxReadings(project.limit_minutes,
                                  project.interval_seconds)
    /\ max_psi_1 = 0
    /\ max_psi_2 = 0
    /\ elapsed_min \in {None, 0}
    /\ stop_requested = FALSE
    /\ progress = 0
    /\ is_running = FALSE
    /\ is_done = FALSE
    /\ dev1 = "COM1"
    /\ dev2 = "COM2"
    /\ pump1 = NoPump
    /\ pump2 = NoPump
    /\ warning = <<>>
    /\ start_raised = ""
    /\ pending = 0
    /\ pc = "idle"
    /\ frame = NoFrame
    /\ fault = ""
    /\ hist = NoHist

\* the run: ports that open, pumps that answer at once, a file that is
\* written, no stop request and no other caller operation
NextOneMinute ==
    \/ StartTest(TRUE, TRUE, TRUE)
    \/ TakeReadings
    \/ UptakeStep
    \/ UptakeDone
    \/ LoopCheck
    \/ \E p \in PsiValues : ReadPressure(p, p, 0)
    \/ Record
    \/ Stop
    \/ SaveTest(TRUE)

SpecOneMinute == InitOneMinute /\ [][NextOneMinute]_vars

\* ------------------------------------------------ dump_json on its own
\* the tests a project may hold: named as labelled, blank or trial
DumpTests ==
    {[NewTestObject EXCEPT !.name = l[1], !.label = l, !.is_blank = b] :
        l \in DumpLabels, b \in BOOLEAN}

\* a constructed TestHandler whose project holds up to MaxDumpTests tests
InitDumpJson ==
    /\ file = NoFile
    /\ \E n \in 0..MaxDumpTests : \E ts \in [1..n -> DumpTests] :
           project = [DefaultProject EXCEPT !.tests = ts]
    /\ test = NewTestObject
    /\ readings = <<>>
    /\ max_readings = MaxReadings(DefaultProject.limit_minutes,
                                  DefaultProject.interval_seconds)
    /\ max_psi_1 = 0
    /\ max_psi_2 = 0
    /\ elapsed_min = None
    /\ stop_requested = FALSE
    /\ progress = 0
    /\ is_running = FALSE
    /\ is_done = FALSE
    /\ dev1 = ""
    /\ dev2 = ""
    /\ pump1 = NoPump
    /\ pump2 = NoPump
    /\ warning = <<>>
    /\ start_raised = ""
    /\ pending = 0
    /\ pc = "call"
    /\ frame = NoFrame
    /\ fault = ""
    /\ hist = NoHist

\* self.project.dump_json(), a first and a second time; the write fails for
\* the project's empty path and the file stays as it is
CallDumpJson ==
    /\ pc \in {"call", "dumped"}
    /\ project' = [project EXCEPT !.tests = DumpOrder(project.tests)]
    /\ pc' = IF pc = "call" THEN "dumped" ELSE "dumped again"
    /\ UNCHANGED <<test, readings, max_readings, max_psi_1, max_psi_2,
                   elapsed_min, stop_requested, progress, is_running, is_done,
                   deviceVars, file, callerVars, pending, frame, historyVars>>

NextDumpJson == CallDumpJson

SpecDumpJson == InitDumpJson /\ [][NextDumpJson]_vars

\* ================================================================ claims
\* C1: for every combination of the two maxima, the pressure limit, the
\* elapsed minutes, the time limit, the number of buffered readings,
\* max_readings and the stop flag, can_run returns true exactly when
\* (max_psi_1 <= limit_psi or max_psi_2 <= limit_psi) and elapsed_min <=
\* limit_minutes and the number of buffered readings < max_readings and
\* stop_requested is not set.
C1_CanRunExact ==
    pc = "returned" =>
        /\ frame.can_run \in {"True", "False"}
        /\ (frame.can_run = "True") <=>
               /\ (max_psi_1 <= project.limit_psi
                   \/ max_psi_2 <= project.limit_psi)
               /\ elapsed_min <= project.limit_minutes
               /\ Len(readings) < max_readings
               /\ ~stop_requested

\* can_run has returned true with one maximum above the limit, the other
\* exactly at it, and the elapsed time exactly at the time limit
C1_Witness ==
    /\ pc = "returned"
    /\ frame.can_run = "True"
    /\ max_psi_1 > project.limit_psi
    /\ max_psi_2 = project.limit_psi
    /\ elapsed_min = project.limit_minutes
    /\ Len(readings) = max_readings - 1

\* C2: in every reachable state in which stop_requested is set, can_run
\* evaluates to false, whatever the maxima, the elapsed time and the number
\* of buffered readings.
C2_StopFlagFalsifies ==
    stop_requested => CanRunResult = "False"

C9_NoSubmitWhileActive ==
    [][pc # "idle" => pending' <= pending]_vars

\* C10: while one take_readings executes, stop_requested stays set once it
\* is set.
C10_StopFlagMonotonic ==
    [][(pc # "idle" /\ pc' # "idle" /\ stop_requested) => stop_requested']_vars

\* C8: a stop request accepted while take_readings executes leads to
\* Stopping: both pumps stopped and closed and is_done set.
C8_StopLeadsToStopping ==
    (stop_requested /\ is_running /\ pc # "idle")
        ~> (is_done /\ ~pump1.is_open /\ ~pump2.is_open)

\* C11: request_stop is idempotent: called in a state a request_stop has
\* just left (the flag is set if a run is active), it changes nothing, so
\* two calls in a row leave the state one call leaves.
C11_RequestStopIdempotent ==
    [][(RequestStop /\ (is_running => stop_requested)) => UNCHANGED vars]_vars

\* a run is sampling with a stop request accepted and not yet observed:
\* the state in which a second request_stop arrives
C11_Witness ==
    /\ is_running
    /\ stop_requested
    /\ pc = "read"
    /\ hist.late = 0
    /\ hist.pushed > 0

\* C12: request_stop changes nothing but the stop_requested flag (readings,
\* maxima, is_running, is_done, test, project, pumps and the worker are left
\* alone), and when is_running is false it changes nothing at all.
C12_RequestStopFrame ==
    [][RequestStop =>
          /\ UNCHANGED <<project, test, readings, max_readings, max_psi_1,
                         max_psi_2, elapsed_min, progress, is_running,
                         is_done, deviceVars, file, callerVars, workerVars>>
          /\ (~is_running => UNCHANGED stop_requested)
          /\ (is_running => stop_requested')]_vars

\* a stop request has been accepted during sampling, with Samples buffered
\* and maxima recorded
C12_Witness ==
    /\ stop_requested
    /\ is_running
    /\ pc = "record"
    /\ Len(readings) > 0
    /\ max_psi_1 > 0

\* C13: a step of take_readings that calls stop_test stops and closes each
\* pump that is open, leaves a closed pump as it is, and sets is_done; after
\* it both pumps are closed.
C13_StopTestClosesPumps ==
    [][((pc = "stop" /\ pc' = "save") \/ (~hist.aborted /\ hist'.aborted)) =>
          /\ is_done'
          /\ ~pump1'.is_open /\ ~pump1'.running
          /\ ~pump2'.is_open /\ ~pump2'.running
          /\ (~pump1.is_open => pump1' = pump1)
          /\ (~pump2.is_open => pump2' = pump2)]_vars

\* stop_test has run twice in one take_readings: once at the uptake abort
\* and once more, on pumps already closed, after the readings loop
C13_Witness ==
    /\ pc = "save"
    /\ hist.aborted
    /\ is_done
    /\ ~pump1.is_open
    /\ ~pump2.is_open

C15_OpenFailureAbortsStart ==
    [][\A o1, o2, log_ok \in BOOLEAN :
          (/\ ~is_running /\ dev1 # dev2 /\ ~(o1 /\ o2)
           /\ StartTest(o1, o2, log_ok)) =>
              /\ start_raised' = ""
              /\ \A p \in {pump1', pump2'} :
                     \/ (p.port = dev1 /\ o1 /\ dev1 # "")
                     \/ (p.port = dev2 /\ o2 /\ dev2 # "")
                     \/ \E k \in 1..Len(warning') :
                            warning'[k] = ConnectIssue(p)
              /\ Len(warning') > 0
              /\ pending' = pending
              /\ ~is_running'
              /\ ~pump1'.is_open
              /\ ~pump2'.is_open]_vars

\* a start request has failed only because pump 1 did not open: pump 2 had
\* opened, had its flow rate set, and has been closed again
C15_Witness ==
    /\ warning = <<"Couldn't connect to COM1">>
    /\ ~is_running
    /\ pending = 0
    /\ pump1.exists /\ ~pump1.is_open /\ pump1.flowrate = 0
    /\ pump2.exists /\ ~pump2.is_open /\ pump2.flowrate = project.flowrate

\* C18: a start request in which at least two of the checks on the test
\* name, the clarity and the ports fail shows one warning that holds the
\* issue of every failed check, raises nothing, submits no take_readings,
\* leaves stop_requested as it is and leaves is_running false.
C18_AllIssuesReported ==
    [][\A o1, o2, log_ok \in BOOLEAN :
          (/\ ~is_running /\ Len(CheckIssues \o PortIssues) >= 2
           /\ StartTest(o1, o2, log_ok)) =>
              /\ start_raised' = ""
              /\ \A k \in 1..Len(CheckIssues \o PortIssues) :
                     \E j \in 1..Len(warning') :
                         warning'[j] = (CheckIssues \o PortIssues)[k]
              /\ pending' = pending
              /\ stop_requested' = stop_requested
              /\ ~is_running']_vars

\* C19: a start request with both devices on the same port reports "Select
\* two unique ports", raises nothing, leaves is_running false and touches no
\* pump: pump1 and pump2 are left exactly as they were.
C19_SamePortNoPumpIO ==
    [][\A o1, o2, log_ok \in BOOLEAN :
          (/\ ~is_running /\ dev1 = dev2
           /\ StartTest(o1, o2, log_ok)) =>
              /\ start_raised' = ""
              /\ \E j \in 1..Len(warning') :
                     warning'[j] = "Select two unique ports"
              /\ ~is_running'
              /\ pending' = pending
              /\ pump1' = pump1
              /\ pump2' = pump2]_vars

C22_MissingProjectFileRejected ==
    [][\A o1, o2, log_ok \in BOOLEAN :
          (/\ ~is_running
           /\ (project.path = "" \/ ~file.exists)
           /\ test.name # ""
           /\ (test.clarity # "" \/ test.is_blank)
           /\ dev1 # "" /\ dev2 # "" /\ dev1 # dev2
           /\ o1 /\ o2 /\ log_ok
           /\ StartTest(o1, o2, log_ok)) =>
              /\ \E k \in 1..Len(warning') :
                     warning'[k] = "Select an existing project file first"
              /\ ~is_running'
              /\ pending' = pending]_vars

\* C23: take_readings is submitted only by a start request whose checks all
\* passed (existing project file, name given and unused, clarity given or
\* blank, two distinct selected ports) and that left both pumps open at the
\* project's flowrate, with no issue shown; and run() starts a pump only when
\* both pumps are open at the project's flowrate and the last start request
\* showed no issue.
C23_RunOnlyAfterChecks ==
    [][/\ (pending' > pending) =>
              /\ project.path # "" /\ file.exists
              /\ test.name # ""
              /\ \A k \in 1..Len(project.tests) :
                     project.tests[k].name # test.name
              /\ (test.clarity # "" \/ test.is_blank)
              /\ dev1 # "" /\ dev2 # "" /\ dev1 # dev2
              /\ warning' = <<>>
              /\ \A p \in {pump1', pump2'} :
                     p.is_open /\ p.flowrate = project.flowrate
       /\ (\E q \in {<<pump1, pump1'>>, <<pump2, pump2'>>} :
               ~q[1].running /\ q[2].running) =>
              /\ warning = <<>>
              /\ \A p \in {pump1, pump2} :
                     p.is_open /\ p.flowrate = project.flowrate]_vars

\* C24: the limits an execution of take_readings stops on are those it
\* started with: from the step after it began until it ends, the pressure
\* limit and time limit of self.project and self.max_readings, which can_run
\* reads at every tick, keep their values.
C24_LimitsFixedDuringRun ==
    [][(pc # "idle" /\ pc' # "idle") =>
          /\ project'.limit_psi = project.limit_psi
          /\ project'.limit_minutes = project.limit_minutes
          /\ max_readings' = max_readings]_vars

C27_ThreeSamplesAt100 ==
    [][(pc # "idle" /\ pc' = "idle") =>
          /\ max_readings = 3
          /\ pc = "save"
          /\ fault' = ""
          /\ ~pump1'.running /\ ~pump2'.running
          /\ Len(project'.tests) = Len(project.tests) + 1
          /\ (\A k \in 1..Len(readings) :
                 readings[k].pump1 = 100 /\ readings[k].pump2 = 100) =>
                 /\ Len(readings) = 3
                 /\ \A k \in 1..Len(readings) : readings[k].average = 100]_vars

\* C28: with the same limits, every execution of take_readings ends in
\* save_test, having recorded at least one reading; when both pumps reported
\* 600 psi at the first read, the saved Test has exactly that one reading.
C28_OneSampleAt600 ==
    [][(pc # "idle" /\ pc' = "idle") =>
          /\ pc = "save"
          /\ fault' = ""
          /\ Len(readings) >= 1
          /\ Len(project'.tests) = Len(project.tests) + 1
          /\ (readings[1].pump1 = 600 /\ readings[1].pump2 = 600) =>
                 /\ Len(readings) = 1
                 /\ project'.tests[Len(project'.tests)].readings
                        = <<readings[1]>>]_vars

C30_TicksOnMultiples ==
    [][/\ (pc' = "loop") =>
              /\ frame'.clock % frame'.interval = 0
              /\ frame'.clock >= frame'.interval
       /\ (pc = "record" /\ pc' = "loop") =>
              LET now == frame.clock
                  iv == frame.interval
                  slept == frame'.clock - now
              IN  /\ slept = iv - (now % iv)
                  /\ slept > 0
                  /\ slept <= iv
                  /\ frame'.clock = ((now \div iv) + 1) * iv]_vars

\* the first tick of a run with an interval of 3 ticks began at 3, its reads
\* took 4 ticks, and the second tick begins at 9
C30_Witness ==
    /\ pc = "loop"
    /\ hist.pushed = 1
    /\ frame.interval = 3
    /\ frame.clock = 9
    /\ readings[1].elapsedMin = MinutesElapsed(3)

C32_DumpJsonOrders ==
    [][CallDumpJson =>
          LET old == project.tests
              new == project'.tests
              Count(s, n, b) ==
                  Cardinality({k \in 1..Len(s) :
                                  s[k].name = n /\ s[k].is_blank = b})
          IN  /\ Len(new) = Len(old)
              /\ \A l \in DumpLabels, b \in BOOLEAN :
                     Count(new, l[1], b) = Count(old, l[1], b)
              /\ \A k \in 1..Len(new) :
                     new[k].label[1] = Lower(<<new[k].name, 0>>)[1]
              /\ \A i, j \in 1..Len(new) :
                     (i < j) =>
                        /\ ~(IsTrial(new[i]) /\ IsBlank(new[j]))
                        /\ new[i].label # new[j].label
                        /\ (new[i].is_blank = new[j].is_blank) =>
                               LabelLess(new[i].label, new[j].label)
              /\ (pc = "dumped") => new = old]_vars

\* dump_json has been applied twice to three tests labelled "a": the blank
\* that got a suffix stands before the two trials
C32_Witness ==
    /\ pc = "dumped again"
    /\ Len(project.tests) = 3
    /\ project.tests[1].is_blank
    /\ project.tests[1].label = <<"a", 1>>
    /\ project.tests[2].label = <<"a", 0>>
    /\ project.tests[3].label = <<"a", 2>>
    /\ ~project.tests[2].is_blank /\ ~project.tests[3].is_blank

\* C33: in every reachable state (during the uptake, during sampling, after
\* new_test) self.progress is an integer from 0 to 100.
C33_ProgressPercentage ==
    progress \in 0..100

\* a run with max_readings = 2 has put its second reading: progress is 100
C33_Witness ==
    /\ pc = "loop"
    /\ max_readings = 2
    /\ Len(readings) = 2
    /\ hist.pushed = 2
    /\ progress = 100

\* C34: when take_readings begins, self.elapsed_min is a number that the
\* run beginning can use: it is not None, and it is 0, not what an earlier
\* run left; and no execution of take_readings ends with the TypeError of
\* can_run.
C34_ElapsedDefinedAtStart ==
    [][/\ (TakeReadings /\ elapsed_min # None) => elapsed_min = 0
       /\ fault' # "TypeError"]_vars

C38_IdlePumpsClosed ==
    (~is_running /\ pc = "idle" /\ pending = 0) =>
        /\ ~pump1.is_open /\ ~pump1.running
        /\ ~pump2.is_open /\ ~pump2.running

====
